---- MODULE Spec2Model ----
(***************************************************************************)
(* TypeScriptServiceClient (extensions/typescript/src/                     *)
(* typescriptServiceClient.ts): the request queue, the callback registry,  *)
(* the dispatch loop, cancellation, the worker process supervisor and its  *)
(* crash-loop breaker.                                                     *)
(*                                                                         *)
(* One action is one macrotask of the event loop (a host call, a process   *)
(* event, a message from the reader, the fork callback) together with the  *)
(* promise jobs it leaves behind, run in the order the promise chains of   *)
(* the source give them.                                                   *)
(*                                                                         *)
(* Environment assumed: the tsserver module exists, electron.fork          *)
(* succeeds, typescript.tsserver.debug is off and the tsdk setting is      *)
(* already migrated, so the promise chain of startService runs to its      *)
(* executor within the macrotask that called it.                           *)
(* host.populateService() is host code; the requests it makes are          *)
(* ordinary execute calls.                                                 *)
(***************************************************************************)
EXTENDS Integers, Sequences, FiniteSets, TLC

\* Bounds of the main specification.
MaxUserCalls == 2
MaxProcs == 3
MaxRestartCalls == 1

\* Bounds of the crash-loop specification.
BreakerUserCalls == 1
BreakerProcs == 8

\* Bounds of the specification with process errors and failed responses.
ErrorUserCalls == 1
ErrorProcs == 2
ErrorRestartCalls == 1

\* Bounds of the specification with response bodies.
RoundTripUserCalls == 1
RoundTripProcs == 2

\* Bounds of the specification with events and unknown messages.
MessagesUserCalls == 2
MessagesProcs == 1
MaxReceived == 2

\* Date.now() - lastStart is kept as the interval it is in: 0 for less than
\* 10 s, 1 for 10 s to 60 s, 2 for 60 s and more.
TenSeconds == 1
OneMinute == 2
MaxRestartCount == 5

VARIABLES
    servicePromise,        \* this.servicePromise: a promise reference
    lastError,             \* this.lastError !== null
    sinceLastStart,        \* Date.now() - this.lastStart, as its interval
    numberRestarts,        \* this.numberRestarts
    isRestarting,          \* this.isRestarting
    cancellationPipeName,  \* 0 for null, else the session that made the name
    requestQueue,          \* this.requestQueue: [queue, sequenceNumber, id]
    callbacks,             \* this.callbacks: [callbacks, pendingResponses, id]
    apiVersion,            \* this._apiVersion
    procs,                 \* the child processes forked so far
    chains,                \* the promises restartTsServer chained on a pending one
    calls,                 \* every execute call made so far, with its future
    signals,               \* the cancellation files written
    lastExit,              \* what the latest run of the exit handler did
    runs,                  \* the current runs of fast and of medium unplanned exits
    sinceFork,             \* time since the latest fork callback, as its interval
    lastForked,            \* the process the latest fork callback handed over
    hostCalls,             \* how many execute / restartTsServer calls the host made
    lastMessage            \* what the latest run of dispatchMessage was given and did

vars == <<servicePromise, lastError, sinceLastStart, numberRestarts, isRestarting,
          cancellationPipeName, requestQueue, callbacks, apiVersion, procs, chains,
          calls, signals, lastExit, runs, sinceFork, lastForked, hostCalls,
          lastMessage>>

----------------------------------------------------------------------------
\* Promise references held in this.servicePromise.
NullPromise == [k |-> "null", id |-> 0]
ProcPromise(p) == [k |-> "proc", id |-> p]
ChainPromise(r) == [k |-> "chain", id |-> r]

\* API.has206Features / has222Features of the version in use.
ApiVersions == {100, 222}
has206Features(v) == v >= 206
has222Features(v) == v >= 222

----------------------------------------------------------------------------
\* class CallbackMap. The Map is the set of its entries [seq, call], one per key.
NewCallbackMap(id) == [callbacks |-> {}, pendingResponses |-> 0, id |-> id]

add(cb, seq, c) ==
    [cb EXCEPT !.callbacks = {e \in cb.callbacks : e.seq # seq} \cup {[seq |-> seq, call |-> c]},
               !.pendingResponses = cb.pendingResponses + 1]

\* delete without the test of Map.delete's result.
deleteUnchecked(cb, seq) ==
    [cb EXCEPT !.callbacks = {e \in cb.callbacks : e.seq # seq},
               !.pendingResponses = cb.pendingResponses - 1]

delete(cb, seq) ==
    IF \E e \in cb.callbacks : e.seq = seq
    THEN [cb EXCEPT !.callbacks = {e \in cb.callbacks : e.seq # seq},
                    !.pendingResponses = cb.pendingResponses - 1]
    ELSE cb

\* fetch returns the entry's call (0 for undefined) and deletes the entry.
fetched(cb, seq) ==
    IF \E e \in cb.callbacks : e.seq = seq
    THEN (CHOOSE e \in cb.callbacks : e.seq = seq).call
    ELSE 0

\* fetch without the call of delete.
fetchWithoutDelete(cb, seq) == cb

fetch(cb, seq) == delete(cb, seq)

----------------------------------------------------------------------------
\* class RequestQueue
NewRequestQueue(id) == [queue |-> <<>>, sequenceNumber |-> 0, id |-> id]

\* push that puts the item at the head of the queue.
pushAtHead(rq, item) == [rq EXCEPT !.queue = <<item>> \o rq.queue]

push(rq, item) == [rq EXCEPT !.queue = Append(rq.queue, item)]

shift(rq) == [rq EXCEPT !.queue = Tail(rq.queue)]

\* createRequest without the increment of sequenceNumber.
createRequestSameNumber(rq) == rq

createRequest(rq) == [rq EXCEPT !.sequenceNumber = rq.sequenceNumber + 1]

QueueIndexOf(q, seq) ==
    LET hits == {i \in 1..Len(q) : q[i].seq = seq}
    IN IF hits = {} THEN 0 ELSE CHOOSE i \in hits : \A j \in hits : i <= j

RemoveAt(q, i) == SubSeq(q, 1, i - 1) \o SubSeq(q, i + 1, Len(q))

\* tryCancelPendingRequest that finds the entry and leaves it in the queue.
tryCancelPendingRequestKeeping(rq, seq) == rq

tryCancelPendingRequest(rq, seq) ==
    LET i == QueueIndexOf(rq.queue, seq)
    IN IF i = 0 THEN rq ELSE [rq EXCEPT !.queue = RemoveAt(rq.queue, i)]

----------------------------------------------------------------------------
(* The client as one record, so that a handler is a function from state to *)
(* state.  jobs holds the promise jobs the running macrotask has queued.   *)
State ==
    [servicePromise |-> servicePromise, lastError |-> lastError,
     sinceLastStart |-> sinceLastStart, numberRestarts |-> numberRestarts,
     isRestarting |-> isRestarting, cancellationPipeName |-> cancellationPipeName,
     requestQueue |-> requestQueue, callbacks |-> callbacks, apiVersion |-> apiVersion,
     procs |-> procs, chains |-> chains, calls |-> calls, signals |-> signals,
     lastExit |-> lastExit, runs |-> runs, sinceFork |-> sinceFork, lastForked |-> lastForked,
     hostCalls |-> hostCalls, lastMessage |-> lastMessage,
     jobs |-> <<>>]

Becomes(s) ==
    /\ servicePromise' = s.servicePromise
    /\ lastError' = s.lastError
    /\ sinceLastStart' = s.sinceLastStart
    /\ numberRestarts' = s.numberRestarts
    /\ isRestarting' = s.isRestarting
    /\ cancellationPipeName' = s.cancellationPipeName
    /\ requestQueue' = s.requestQueue
    /\ callbacks' = s.callbacks
    /\ apiVersion' = s.apiVersion
    /\ procs' = s.procs
    /\ chains' = s.chains
    /\ calls' = s.calls
    /\ signals' = s.signals
    /\ lastExit' = s.lastExit
    /\ runs' = s.runs
    /\ sinceFork' = s.sinceFork
    /\ lastForked' = s.lastForked
    /\ hostCalls' = s.hostCalls
    /\ lastMessage' = s.lastMessage

\* A process has been handed to the fork callback (its promise is resolved).
Forked(st) == st \in {"alive", "exiting", "dead"}

\* The child process a promise is resolved with, 0 while it is pending.
Value(s, ref) ==
    IF ref.k = "proc"
    THEN IF Forked(s.procs[ref.id].state) THEN ref.id ELSE 0
    ELSE IF ref.k = "chain"
    THEN LET tg == s.chains[ref.id].target
         IN IF tg # 0 /\ Forked(s.procs[tg].state) THEN tg ELSE 0
    ELSE 0

\* A CallbackItem's c or e is invoked: the call's future completes.
complete(s, c, how) ==
    [s EXCEPT !.calls[c].done = @ + 1,
              !.calls[c].outcome = IF s.calls[c].done = 0 THEN how ELSE @]

\* A Proto.Response, and the value a future has before it is settled.
Response(request_seq, success, body) ==
    [request_seq |-> request_seq, success |-> success, body |-> body]

NoValue == [none |-> TRUE]

\* p.c(value) or p.e(value): the first call of either settles the future
\* with its argument.
settle(s, c, value) ==
    [s EXCEPT !.calls[c].value = IF s.calls[c].done = 1 THEN value ELSE @]

\* destroy that empties the map without a call of callback.e.
destroyWithoutReject(s) ==
    [s EXCEPT !.callbacks.callbacks = {},
              !.callbacks.pendingResponses = 0]

\* CallbackMap.destroy: callback.e(e) for every entry, then an empty map.
destroy(s) ==
    LET live == {e.call : e \in s.callbacks.callbacks}
    IN [s EXCEPT
          !.calls = [c \in DOMAIN s.calls |->
                        IF c \in live
                        THEN [s.calls[c] EXCEPT
                                !.done = @ + 1,
                                !.outcome = IF s.calls[c].done = 0 THEN "died" ELSE @]
                        ELSE s.calls[c]],
          !.callbacks.callbacks = {},
          !.callbacks.pendingResponses = 0]

\* childProcess.stdin.write(JSON.stringify(serverRequest) + '\r\n')
write(s, c, p) ==
    [s EXCEPT !.procs[p].written =
        Append(@, [seq |-> s.calls[c].seq, call |-> c,
                   recv |-> s.procs[p].state = "alive"])]

\* promise.then(job): run now when the promise is resolved, else wait on it.
Attach(s, ref, w) ==
    IF ref.k = "proc"
    THEN [s EXCEPT !.procs[ref.id].waiters = Append(@, w)]
    ELSE [s EXCEPT !.chains[ref.id].waiters = Append(@, w)]

\* startService(resendModels): its promise chain ends in the executor.
startService(s, resendModels, chain) ==
    [s EXCEPT !.jobs = Append(@, [t |-> "start", resend |-> resendModels, id |-> chain])]

\* The executor of the promise startService makes (lines 454-591).
StartServiceExecutor(s, resendModels, chain) ==
    LET p == Len(s.procs) + 1
        s1 == [s EXCEPT
                 !.requestQueue = NewRequestQueue(s.requestQueue.id + 1),
                 !.callbacks = NewCallbackMap(s.callbacks.id + 1),
                 !.lastError = FALSE,
                 !.cancellationPipeName =
                     IF has222Features(s.apiVersion) THEN p ELSE @,
                 !.procs = Append(@, [state |-> "forking", resend |-> resendModels,
                                      written |-> <<>>, answered |-> 0,
                                      waiters |-> <<>>, errored |-> FALSE,
                                      received |-> 0]),
                 !.servicePromise = ProcPromise(p)]
    IN IF chain = 0 THEN s1 ELSE [s1 EXCEPT !.chains[chain].target = p]

\* sendRequest without the call of callbacks.add.
sendRequestWithoutAdd(s, item) ==
    LET c == item.call
        s1 == [s EXCEPT
                 !.calls[c].sentAt = s.callbacks.pendingResponses]
        sp == s1.servicePromise
    IN IF sp.k # "null"
       THEN IF Value(s1, sp) # 0
            THEN write(s1, c, Value(s1, sp))
            ELSE Attach(s1, sp, [t |-> "write", id |-> c])
       ELSE IF s1.lastError
       THEN [s1 EXCEPT !.calls[c].noService = TRUE,
                       !.jobs = Append(@, [t |-> "err", resend |-> FALSE, id |-> c])]
       ELSE LET s2 == startService(s1, FALSE, 0)
            IN [s2 EXCEPT !.calls[c].noService = TRUE,
                          !.jobs = Append(@, [t |-> "err", resend |-> FALSE, id |-> c])]

\* sendRequest: register the callbacks, then service().then(write).then(, err).
sendRequest(s, item) ==
    LET c == item.call
        s1 == [s EXCEPT
                 !.calls[c].sentAt = s.callbacks.pendingResponses,
                 !.callbacks = IF s.calls[c].kind # "fire"
                               THEN add(@, item.seq, c) ELSE @]
        sp == s1.servicePromise
    IN IF sp.k # "null"
       THEN IF Value(s1, sp) # 0
            THEN write(s1, c, Value(s1, sp))
            ELSE Attach(s1, sp, [t |-> "write", id |-> c])
       ELSE IF s1.lastError
       THEN [s1 EXCEPT !.calls[c].noService = TRUE,
                       !.jobs = Append(@, [t |-> "err", resend |-> FALSE, id |-> c])]
       ELSE LET s2 == startService(s1, FALSE, 0)
            IN [s2 EXCEPT !.calls[c].noService = TRUE,
                          !.jobs = Append(@, [t |-> "err", resend |-> FALSE, id |-> c])]

\* sendNextRequests without the test of pendingResponses.
RECURSIVE sendNextRequestsUngated(_)
sendNextRequestsUngated(s) ==
    IF Len(s.requestQueue.queue) > 0
    THEN LET item == Head(s.requestQueue.queue)
         IN sendNextRequestsUngated(
                sendRequest([s EXCEPT !.requestQueue = shift(@)], item))
    ELSE s

\* sendNextRequests that lets an entry without callbacks pass the test of
\* pendingResponses.
RECURSIVE sendNextRequestsFireAndForgetFirst(_)
sendNextRequestsFireAndForgetFirst(s) ==
    IF /\ Len(s.requestQueue.queue) > 0
       /\ \/ s.callbacks.pendingResponses = 0
          \/ s.calls[Head(s.requestQueue.queue).call].kind = "fire"
    THEN LET item == Head(s.requestQueue.queue)
         IN sendNextRequestsFireAndForgetFirst(
                sendRequest([s EXCEPT !.requestQueue = shift(@)], item))
    ELSE s

RECURSIVE sendNextRequests(_)
sendNextRequests(s) ==
    IF s.callbacks.pendingResponses = 0 /\ Len(s.requestQueue.queue) > 0
    THEN LET item == Head(s.requestQueue.queue)
         IN sendNextRequests(
                sendRequest([s EXCEPT !.requestQueue = shift(@)], item))
    ELSE s

\* execute(command, args, expectsResultOrToken); kind is "fire" for
\* expectsResult = false, "result" for true or undefined, "token" for a token.
execute(s, kind) ==
    LET c == Len(s.calls) + 1
        seq == s.requestQueue.sequenceNumber
        s1 == [s EXCEPT
                 !.requestQueue = push(createRequest(@), [seq |-> seq, call |-> c]),
                 !.calls = Append(@, [kind |-> kind, seq |-> seq,
                                      session |-> s.requestQueue.id,
                                      done |-> 0, outcome |-> "none",
                                      fired |-> FALSE, liveAtFire |-> FALSE,
                                      cancelHit |-> "none", sentAt |-> -1,
                                      noService |-> FALSE, value |-> NoValue])]
    IN sendNextRequests(s1)

\* tryCancelRequest(seq), called by the token listener of call c.
tryCancelRequest(s, seq, c) ==
    LET i == QueueIndexOf(s.requestQueue.queue, seq)
        byPipe == has222Features(s.apiVersion) /\ s.cancellationPipeName # 0
        s1 == IF i # 0
              THEN [s EXCEPT !.requestQueue = tryCancelPendingRequest(@, seq),
                             !.calls[c].cancelHit =
                                 IF s.requestQueue.queue[i].call = c
                                 THEN "queue" ELSE "queue of a later session"]
              ELSE IF byPipe
              THEN [s EXCEPT !.signals = @ \cup {[pipe |-> s.cancellationPipeName,
                                                  seq |-> seq, by |-> c]},
                             !.calls[c].cancelHit = "pipe"]
              ELSE [s EXCEPT !.calls[c].cancelHit = "delivered"]
        p == fetched(s1.callbacks, seq)
        s2 == [s1 EXCEPT !.callbacks = fetch(@, seq)]
    IN IF p # 0 THEN complete(s2, p, "cancelled") ELSE s2

\* What dispatchMessage was given; raised: it threw 'Unknown message type'
\* to the reader that called it (the try has a finally and no catch); sent:
\* how many queue entries its finally block handed to sendRequest.
NoMessage == [type |-> "none", raised |-> FALSE, sent |-> 0]

Dispatched(s, type, before) ==
    [s EXCEPT !.lastMessage =
        [type |-> type,
         raised |-> type \notin {"response", "event"},
         sent |-> Len(before.requestQueue.queue) - Len(s.requestQueue.queue)]]

\* dispatchMessage that hands the body of the response to p.c and p.e.
dispatchMessageHandingBody(s, type, request_seq, success, body) ==
    LET p == IF type = "response" THEN fetched(s.callbacks, request_seq) ELSE 0
        s0 == IF type = "response"
              THEN [s EXCEPT !.callbacks = fetch(@, request_seq)]
              ELSE s
        s1 == IF p # 0
              THEN settle(complete(s0, p, IF success THEN "resolved" ELSE "rejected"),
                          p, body)
              ELSE s0
    IN Dispatched(sendNextRequests(s1), type, s1)

\* dispatchMessage without the finally block.
dispatchMessageWithoutLoop(s, type, request_seq, success, body) ==
    LET response == Response(request_seq, success, body)
        p == IF type = "response" THEN fetched(s.callbacks, request_seq) ELSE 0
        s0 == IF type = "response"
              THEN [s EXCEPT !.callbacks = fetch(@, request_seq)]
              ELSE s
        s1 == IF p # 0
              THEN settle(complete(s0, p, IF success THEN "resolved" ELSE "rejected"),
                          p, response)
              ELSE s0
    IN Dispatched(s1, type, s1)

\* dispatchMessage(message): message.type is "response", "event" or other;
\* p.c(response) resolves the call's future, p.e(response) rejects it.
dispatchMessage(s, type, request_seq, success, body) ==
    LET response == Response(request_seq, success, body)
        p == IF type = "response" THEN fetched(s.callbacks, request_seq) ELSE 0
        s0 == IF type = "response"
              THEN [s EXCEPT !.callbacks = fetch(@, request_seq)]
              ELSE s
        s1 == IF p # 0
              THEN settle(complete(s0, p, IF success THEN "resolved" ELSE "rejected"),
                          p, response)
              ELSE s0
    IN Dispatched(sendNextRequests(s1), type, s1)

\* The runs of consecutive unplanned exits seen so far, six exits at a time.
\* fast: the current run of exits that each came less than 10 s after the
\* start before it.  fresh: the same, counted from an exit that found the
\* restart counter at 0.  medium: the current run of exits of the latest
\* started process that each came 10 s to 60 s after its start.
NoRun == [len |-> 0, restarts |-> 0, warnings |-> 0, errors |-> 0,
          last |-> "none", after |-> 0]

NoRuns == [fast |-> NoRun, fresh |-> NoRun, medium |-> NoRun]

RunLength == MaxRestartCount + 1

\* The run r with the exit e added to it.
Extend(r, e) ==
    [len |-> r.len + 1,
     restarts |-> r.restarts + (IF e.started THEN 1 ELSE 0),
     warnings |-> r.warnings + (IF e.prompt = "warning" THEN 1 ELSE 0),
     errors |-> r.errors + (IF e.prompt = "error" THEN 1 ELSE 0),
     last |-> IF e.started THEN "started" ELSE "stopped",
     after |-> e.after]

\* The runs r after the exit e; latest: it is the exit of the process the
\* latest fork callback handed over.
Observe(r, e, latest) ==
    IF ~e.restart THEN r
    ELSE [fast |->
            IF e.gap >= TenSeconds THEN NoRun
            ELSE IF r.fast.len >= RunLength THEN Extend(NoRun, e)
            ELSE Extend(r.fast, e),
          fresh |->
            IF e.gap >= TenSeconds THEN NoRun
            ELSE IF e.before = 0 THEN Extend(NoRun, e)
            ELSE IF r.fresh.len \in 1..(RunLength - 1) THEN Extend(r.fresh, e)
            ELSE NoRun,
          medium |->
            IF e.gap < TenSeconds \/ e.gap >= OneMinute \/ ~latest THEN NoRun
            ELSE IF r.medium.len >= RunLength THEN Extend(NoRun, e)
            ELSE Extend(r.medium, e)]

\* serviceExited(restart).  lastExit records what the latest run of it did;
\* calls: how many execute calls had been made by then.
NoExit == [restart |-> FALSE, before |-> 0, after |-> 0, gap |-> 0, calls |-> 0,
           started |-> FALSE, prompt |-> "none"]

\* serviceExited without numberRestarts = 0 when the counter exceeds 5.
serviceExitedKeepingCount(s, restart) ==
    LET diff == s.sinceLastStart
        n == s.numberRestarts + 1
        over == n > MaxRestartCount
        fatal == over /\ diff < TenSeconds
        warning == over /\ ~fatal /\ diff < OneMinute
        after == IF ~restart THEN s.numberRestarts ELSE n
        s1 == [destroy([s EXCEPT !.servicePromise = NullPromise]) EXCEPT
                 !.callbacks = NewCallbackMap(s.callbacks.id + 1),
                 !.numberRestarts = after,
                 !.sinceLastStart = IF restart /\ (fatal \/ warning) THEN 0 ELSE @,
                 !.lastExit =
                     [restart |-> restart,
                      before |-> s.numberRestarts,
                      after |-> after,
                      gap |-> s.sinceFork,
                      calls |-> Len(s.calls),
                      started |-> restart /\ ~fatal,
                      prompt |-> IF ~restart THEN "none"
                                 ELSE IF fatal THEN "error"
                                 ELSE IF warning THEN "warning" ELSE "none"]]
    IN IF restart /\ ~fatal THEN startService(s1, TRUE, 0) ELSE s1

\* serviceExited with the 60 s threshold in the place of the 10 s one.
serviceExitedFatalBelowMinute(s, restart) ==
    LET diff == s.sinceLastStart
        n == s.numberRestarts + 1
        over == n > MaxRestartCount
        fatal == over /\ diff < OneMinute
        warning == over /\ ~fatal /\ diff < OneMinute
        after == IF ~restart THEN s.numberRestarts ELSE IF over THEN 0 ELSE n
        s1 == [destroy([s EXCEPT !.servicePromise = NullPromise]) EXCEPT
                 !.callbacks = NewCallbackMap(s.callbacks.id + 1),
                 !.numberRestarts = after,
                 !.sinceLastStart = IF restart /\ (fatal \/ warning) THEN 0 ELSE @,
                 !.lastExit =
                     [restart |-> restart,
                      before |-> s.numberRestarts,
                      after |-> after,
                      gap |-> s.sinceFork,
                      calls |-> Len(s.calls),
                      started |-> restart /\ ~fatal,
                      prompt |-> IF ~restart THEN "none"
                                 ELSE IF fatal THEN "error"
                                 ELSE IF warning THEN "warning" ELSE "none"]]
    IN IF restart /\ ~fatal THEN startService(s1, TRUE, 0) ELSE s1

\* serviceExited that takes the counter to exceed the limit when it reaches it.
serviceExitedOverAtFive(s, restart) ==
    LET diff == s.sinceLastStart
        n == s.numberRestarts + 1
        over == n >= MaxRestartCount
        fatal == over /\ diff < TenSeconds
        warning == over /\ ~fatal /\ diff < OneMinute
        after == IF ~restart THEN s.numberRestarts ELSE IF over THEN 0 ELSE n
        s1 == [destroy([s EXCEPT !.servicePromise = NullPromise]) EXCEPT
                 !.callbacks = NewCallbackMap(s.callbacks.id + 1),
                 !.numberRestarts = after,
                 !.sinceLastStart = IF restart /\ (fatal \/ warning) THEN 0 ELSE @,
                 !.lastExit =
                     [restart |-> restart,
                      before |-> s.numberRestarts,
                      after |-> after,
                      gap |-> s.sinceFork,
                      calls |-> Len(s.calls),
                      started |-> restart /\ ~fatal,
                      prompt |-> IF ~restart THEN "none"
                                 ELSE IF fatal THEN "error"
                                 ELSE IF warning THEN "warning" ELSE "none"]]
    IN IF restart /\ ~fatal THEN startService(s1, TRUE, 0) ELSE s1

\* serviceExited(restart), lines 809-855.
serviceExited(s, restart) ==
    LET diff == s.sinceLastStart
        n == s.numberRestarts + 1
        over == n > MaxRestartCount
        fatal == over /\ diff < TenSeconds
        warning == over /\ ~fatal /\ diff < OneMinute
        after == IF ~restart THEN s.numberRestarts ELSE IF over THEN 0 ELSE n
        s1 == [destroy([s EXCEPT !.servicePromise = NullPromise]) EXCEPT
                 !.callbacks = NewCallbackMap(s.callbacks.id + 1),
                 !.numberRestarts = after,
                 !.sinceLastStart = IF restart /\ (fatal \/ warning) THEN 0 ELSE @,
                 !.lastExit =
                     [restart |-> restart,
                      before |-> s.numberRestarts,
                      after |-> after,
                      gap |-> s.sinceFork,
                      calls |-> Len(s.calls),
                      started |-> restart /\ ~fatal,
                      prompt |-> IF ~restart THEN "none"
                                 ELSE IF fatal THEN "error"
                                 ELSE IF warning THEN "warning" ELSE "none"]]
    IN IF restart /\ ~fatal THEN startService(s1, TRUE, 0) ELSE s1

\* setCompilerOptionsForInferredProjects(), lines 755-779.
setCompilerOptionsForInferredProjects(s) ==
    IF has206Features(s.apiVersion) THEN execute(s, "result") ELSE s

\* serviceStarted(resendModels): configure, then the inferred-project options.
serviceStarted(s, resendModels) ==
    setCompilerOptionsForInferredProjects(execute(s, "result"))

\* cp.kill() inside restartTsServer's chain.
kill(s, p) ==
    [s EXCEPT !.isRestarting = TRUE,
              !.procs[p].state = IF @ = "alive" THEN "exiting" ELSE @]

\* restartTsServer()
restartTsServer(s) ==
    IF s.servicePromise.k # "null"
    THEN LET cp == Value(s, s.servicePromise)
         IN IF cp # 0
            THEN startService(kill(s, cp), TRUE, 0)
            ELSE LET r == Len(s.chains) + 1
                     s1 == [s EXCEPT !.chains = Append(@, [base |-> s.servicePromise,
                                                           target |-> 0,
                                                           waiters |-> <<>>])]
                     s2 == Attach(s1, s.servicePromise, [t |-> "chain", id |-> r])
                 IN [s2 EXCEPT !.servicePromise = ChainPromise(r)]
    ELSE startService(s, TRUE, 0)

\* The reactions of a promise resolved with child process p, in the order
\* they were attached: a write, or the kill-then-start of a restart chain.
RECURSIVE RunWaiters(_, _, _)
RunWaiters(s, ws, p) ==
    IF ws = <<>> THEN s
    ELSE LET w == Head(ws)
             s1 == IF w.t = "write"
                   THEN write(s, w.id, p)
                   ELSE startService(kill(s, p), TRUE, w.id)
         IN RunWaiters(s1, Tail(ws), p)

\* sendRequest without its rejection handler.
RunErrsUnhandled(s, js) == s

\* The jobs left when the handler returns: the rejection handlers of
\* sendRequest run before any executor of startService.
RECURSIVE RunErrs(_, _)
RunErrs(s, js) ==
    IF js = <<>> THEN s
    ELSE LET j == Head(js)
             p == fetched(s.callbacks, s.calls[j.id].seq)
             s1 == IF j.t = "err"
                   THEN LET s0 == [s EXCEPT !.callbacks = fetch(@, s.calls[j.id].seq)]
                        IN IF p # 0 THEN complete(s0, p, "transport") ELSE s0
                   ELSE s
         IN RunErrs(s1, Tail(js))

RECURSIVE RunStarts(_, _)
RunStarts(s, js) ==
    IF js = <<>> THEN s
    ELSE LET j == Head(js)
             s1 == IF j.t = "start"
                   THEN StartServiceExecutor(s, j.resend, j.id)
                   ELSE s
         IN RunStarts(s1, Tail(js))

Drain(s) ==
    LET s1 == RunErrs(s, s.jobs)
        s2 == RunStarts(s1, s.jobs)
    IN [s2 EXCEPT !.jobs = <<>>]

----------------------------------------------------------------------------
\* The constructor (lines 259-306): fields, then startService().
Constructed(v) ==
    [servicePromise |-> NullPromise, lastError |-> FALSE, sinceLastStart |-> 0,
     numberRestarts |-> 0, isRestarting |-> FALSE, cancellationPipeName |-> 0,
     requestQueue |-> NewRequestQueue(0), callbacks |-> NewCallbackMap(0),
     apiVersion |-> v, procs |-> <<>>, chains |-> <<>>, calls |-> <<>>,
     signals |-> {}, lastExit |-> NoExit, runs |-> NoRuns,
     sinceFork |-> 0, lastForked |-> 0,
     hostCalls |-> [execute |-> 0, restart |-> 0],
     lastMessage |-> NoMessage,
     jobs |-> <<>>]

Init ==
    \E v \in ApiVersions :
        LET s == Drain(startService(Constructed(v), FALSE, 0))
        IN /\ servicePromise = s.servicePromise
           /\ lastError = s.lastError
           /\ sinceLastStart = s.sinceLastStart
           /\ numberRestarts = s.numberRestarts
           /\ isRestarting = s.isRestarting
           /\ cancellationPipeName = s.cancellationPipeName
           /\ requestQueue = s.requestQueue
           /\ callbacks = s.callbacks
           /\ apiVersion = s.apiVersion
           /\ procs = s.procs
           /\ chains = s.chains
           /\ calls = s.calls
           /\ signals = s.signals
           /\ lastExit = s.lastExit
           /\ runs = s.runs
           /\ sinceFork = s.sinceFork
           /\ lastForked = s.lastForked
           /\ hostCalls = s.hostCalls
           /\ lastMessage = s.lastMessage

\* The state s is the next state, if it is within the bound on processes.
Within(s, maxProcs) ==
    /\ Len(s.procs) <= maxProcs
    /\ Becomes(s)

\* A macrotask ends: its promise jobs run, and the result is the next state.
Commit(s, maxProcs) == Within(Drain(s), maxProcs)

\* The host calls execute.
Execute(kind, maxCalls, maxProcs) ==
    /\ hostCalls.execute < maxCalls
    /\ Commit(execute([State EXCEPT !.hostCalls.execute = @ + 1], kind), maxProcs)

\* The cancellation token of call c fires: its listener runs tryCancelRequest.
TokenCancel(c, maxProcs) ==
    /\ calls[c].kind = "token"
    /\ ~calls[c].fired
    /\ Commit(tryCancelRequest(
                  [State EXCEPT !.calls[c].fired = TRUE,
                                !.calls[c].liveAtFire = (calls[c].done = 0)],
                  calls[c].seq, c), maxProcs)

\* The host (or a configuration change) calls restartTsServer.
RestartTsServer(maxRestarts, maxProcs) ==
    /\ hostCalls.restart < maxRestarts
    /\ Commit(restartTsServer([State EXCEPT !.hostCalls.restart = @ + 1]), maxProcs)

\* resolve(childProcess): the reactions attached to the promise of process
\* p run, then those of the restart chain that follows it.
Resolved(s, p) ==
    LET followers == {r \in DOMAIN s.chains : s.chains[r].target = p}
    IN IF followers = {} THEN s
       ELSE LET r == CHOOSE r \in followers : TRUE
            IN RunWaiters([s EXCEPT !.chains[r].waiters = <<>>],
                          s.chains[r].waiters, p)

\* The end of the fork callback for process p: the requests serviceStarted
\* made are written before any reaction of the promise runs.
Started(s, p) ==
    Resolved(RunWaiters([s EXCEPT !.procs[p].state = "alive",
                                  !.procs[p].waiters = <<>>,
                                  !.procs[p].resend = FALSE],
                        s.procs[p].waiters, p), p)

\* The callback of electron.fork (lines 544-587), without an error.
ForkCallback(p, maxProcs) ==
    /\ procs[p].state = "forking"
    /\ Commit(Started(serviceStarted([State EXCEPT !.sinceLastStart = 0,
                                                   !.sinceFork = 0,
                                                   !.lastForked = p],
                                     procs[p].resend), p), maxProcs)

\* The end of the 'exit' listener: isRestarting = false.
Exited(s, latest) ==
    [s EXCEPT !.isRestarting = FALSE, !.runs = Observe(@, s.lastExit, latest)]

\* childProcess.on('exit') (lines 562-575): the process crashed, or it was
\* killed and its exit event arrives.
ProcessExit(p, maxProcs) ==
    /\ procs[p].state \in {"alive", "exiting"}
    /\ Commit(Exited(serviceExited([State EXCEPT !.procs[p].state = "dead",
                                                 !.procs[p].answered = 0],
                                   ~isRestarting), p = lastForked), maxProcs)

\* childProcess.on('error') (lines 553-561): the process could not be killed
\* or a message could not be sent to it; an 'exit' event may or may not
\* follow.  A process raises the event once.
ProcessError(p, maxProcs) ==
    /\ procs[p].state \in {"alive", "exiting"}
    /\ ~procs[p].errored
    /\ Commit(serviceExited([State EXCEPT !.procs[p].errored = TRUE,
                                          !.lastError = TRUE], FALSE), maxProcs)

\* The next request the worker process p answers: the result-bearing
\* requests it received, in the order they were written.
NextAnswer(p) ==
    LET open == {i \in (procs[p].answered + 1)..Len(procs[p].written) :
                    /\ procs[p].written[i].recv
                    /\ calls[procs[p].written[i].call].kind # "fire"}
    IN IF open = {} THEN 0 ELSE CHOOSE i \in open : \A j \in open : i <= j

\* The reader of process p hands a response to dispatchMessage (line 579).
Respond(p, success, body, maxProcs) ==
    /\ procs[p].state \in {"alive", "exiting"}
    /\ NextAnswer(p) # 0
    /\ LET i == NextAnswer(p)
       IN Commit(dispatchMessage([State EXCEPT !.procs[p].answered = i],
                                 "response", procs[p].written[i].seq, success, body),
                 maxProcs)

\* The body of a response whose content is of no interest.
NoBody == [x |-> 0]

\* The reader of process p hands dispatchMessage a message that is not a
\* response: an event, or one of a type the protocol does not have.
Receive(p, type, maxReceived, maxProcs) ==
    /\ procs[p].state \in {"alive", "exiting"}
    /\ procs[p].received < maxReceived
    /\ Commit(dispatchMessage([State EXCEPT !.procs[p].received = @ + 1],
                               type, 0, FALSE, NoBody), maxProcs)

\* Time passes from one interval into the next.
Tick ==
    /\ sinceLastStart < OneMinute \/ sinceFork < OneMinute
    /\ sinceLastStart' = IF sinceLastStart < OneMinute THEN sinceLastStart + 1
                         ELSE sinceLastStart
    /\ sinceFork' = IF sinceFork < OneMinute THEN sinceFork + 1 ELSE sinceFork
    /\ UNCHANGED <<servicePromise, lastError, numberRestarts, isRestarting,
                   cancellationPipeName, requestQueue, callbacks, apiVersion, procs,
                   chains, calls, signals, lastExit, runs, lastForked, hostCalls,
                   lastMessage>>

\* What the host passes as expectsResultOrToken: false, or a cancellation
\* token (a token that never fires is the same as true or undefined).
Kinds == {"fire", "token"}

Next ==
    \/ \E kind \in Kinds : Execute(kind, MaxUserCalls, MaxProcs)
    \/ \E c \in DOMAIN calls : TokenCancel(c, MaxProcs)
    \/ RestartTsServer(MaxRestartCalls, MaxProcs)
    \/ \E p \in DOMAIN procs : ForkCallback(p, MaxProcs)
    \/ \E p \in DOMAIN procs : ProcessExit(p, MaxProcs)
    \/ \E p \in DOMAIN procs : Respond(p, TRUE, NoBody, MaxProcs)

Spec == Init /\ [][Next]_vars

\* The crash loop: the worker is started, fails and is restarted while time
\* passes; the host makes a request now and then.
NextBreaker ==
    \/ \E kind \in Kinds : Execute(kind, BreakerUserCalls, BreakerProcs)
    \/ \E p \in DOMAIN procs : ForkCallback(p, BreakerProcs)
    \/ \E p \in DOMAIN procs : ProcessExit(p, BreakerProcs)
    \/ Tick

SpecBreaker == Init /\ [][NextBreaker]_vars

\* The client with a worker that also raises 'error' events and answers
\* with success true or false.
NextError ==
    \/ \E kind \in Kinds : Execute(kind, ErrorUserCalls, ErrorProcs)
    \/ \E c \in DOMAIN calls : TokenCancel(c, ErrorProcs)
    \/ RestartTsServer(ErrorRestartCalls, ErrorProcs)
    \/ \E p \in DOMAIN procs : ForkCallback(p, ErrorProcs)
    \/ \E p \in DOMAIN procs : ProcessExit(p, ErrorProcs)
    \/ \E p \in DOMAIN procs : ProcessError(p, ErrorProcs)
    \/ \E p \in DOMAIN procs, success \in BOOLEAN :
          Respond(p, success, NoBody, ErrorProcs)

SpecError == Init /\ [][NextError]_vars

\* The bodies a response carries.
Bodies == {[x |-> 1], [y |-> 2]}

\* Requests and their responses, with any body.
NextRoundTrip ==
    \/ \E kind \in Kinds : Execute(kind, RoundTripUserCalls, RoundTripProcs)
    \/ \E c \in DOMAIN calls : TokenCancel(c, RoundTripProcs)
    \/ \E p \in DOMAIN procs : ForkCallback(p, RoundTripProcs)
    \/ \E p \in DOMAIN procs : ProcessExit(p, RoundTripProcs)
    \/ \E p \in DOMAIN procs, success \in BOOLEAN, body \in Bodies :
          Respond(p, success, body, RoundTripProcs)

SpecRoundTrip == Init /\ [][NextRoundTrip]_vars

\* The types of the messages that are not responses.
OtherTypes == {"event", "unknown"}

\* The client with one worker, which also sends events and messages of an
\* unknown type.
NextMessages ==
    \/ \E kind \in Kinds : Execute(kind, MessagesUserCalls, MessagesProcs)
    \/ \E c \in DOMAIN calls : TokenCancel(c, MessagesProcs)
    \/ \E p \in DOMAIN procs : ForkCallback(p, MessagesProcs)
    \/ \E p \in DOMAIN procs, success \in BOOLEAN :
          Respond(p, success, NoBody, MessagesProcs)
    \/ \E p \in DOMAIN procs, type \in OtherTypes :
          Receive(p, type, MaxReceived, MessagesProcs)

SpecMessages == Init /\ [][NextMessages]_vars

----------------------------------------------------------------------------
\* What the properties below speak of.

\* Call c returns a future: expectsResult is true, undefined or a token.
ResultBearing(c) == calls[c].kind # "fire"

\* The request of call c waits in this.requestQueue.
InQueue(c) == \E i \in 1..Len(requestQueue.queue) : requestQueue.queue[i].call = c

\* The callbacks of call c are in this.callbacks.
Registered(c) == \E e \in callbacks.callbacks : e.call = c

\* The request of call c was written to the stdin of some child process.
Written(c) == \E p \in DOMAIN procs :
                 \E i \in 1..Len(procs[p].written) : procs[p].written[i].call = c

----------------------------------------------------------------------------
\* C1: the future of every result-bearing execute call completes exactly
\* once: it never completes twice, and once the queue its request was made
\* in has been replaced (nothing can complete it any more) it has completed.
C1_CompletesExactlyOnce ==
    \A c \in DOMAIN calls :
        ResultBearing(c) =>
            /\ calls[c].done <= 1
            /\ calls[c].session # requestQueue.id => calls[c].done = 1

\* C2: whenever the queue or the registry is replaced by a fresh instance,
\* every result-bearing call the replaced instance held has been resolved
\* or rejected by then.
C2_NoneDroppedOnReset ==
    [][\A c \in DOMAIN calls :
          /\ ResultBearing(c)
          /\ calls[c].done = 0
          /\ \/ InQueue(c) /\ requestQueue'.id # requestQueue.id
             \/ Registered(c) /\ callbacks'.id # callbacks.id
          => calls'[c].done > 0]_vars

\* C3: an entry with callbacks goes to sendRequest only when
\* pendingResponses is 0, and pendingResponses never exceeds 1.
C3_SingleFlight ==
    /\ callbacks.pendingResponses <= 1
    /\ \A c \in DOMAIN calls : ResultBearing(c) => calls[c].sentAt \in {-1, 0}

\* A result-bearing request waits in the queue behind an outstanding one.
C3_Witness ==
    \E c \in DOMAIN calls :
        ResultBearing(c) /\ InQueue(c) /\ callbacks.pendingResponses = 1

\* C4, as stated: a fire-and-forget request is not held back while
\* pendingResponses > 0.
C4_FireAndForgetNotHeld ==
    \A c \in DOMAIN calls :
        calls[c].kind = "fire" => ~(InQueue(c) /\ callbacks.pendingResponses > 0)

\* C4, amended: a fire-and-forget request goes to sendRequest, and so to
\* the worker, only when pendingResponses is 0.
C4_FireAndForgetGated ==
    \A c \in DOMAIN calls :
        calls[c].kind = "fire" =>
            /\ calls[c].sentAt \in {-1, 0}
            /\ Written(c) => calls[c].sentAt = 0

\* A fire-and-forget request waits in the queue behind an outstanding
\* result-bearing one.
C4_Witness ==
    \E c \in DOMAIN calls :
        calls[c].kind = "fire" /\ InQueue(c) /\ callbacks.pendingResponses > 0

\* C5: pendingResponses is non-negative and is the number of entries of the
\* callbacks map.
C5_PendingCount ==
    /\ callbacks.pendingResponses >= 0
    /\ callbacks.pendingResponses = Cardinality(callbacks.callbacks)

\* add, fetch and destroy have all acted: a call was answered, another was
\* rejected by destroy, and one is registered.
C5_Witness ==
    /\ callbacks.pendingResponses = 1
    /\ \E c \in DOMAIN calls : calls[c].outcome = "resolved"
    /\ \E c \in DOMAIN calls : calls[c].outcome = "died"

\* C6: the sequence numbers createRequest returns for one RequestQueue are
\* strictly increasing, and the first one of every RequestQueue is 0.
C6_SequenceNumbers ==
    \A c \in DOMAIN calls :
        LET earlier == {d \in 1..(c - 1) : calls[d].session = calls[c].session}
        IN /\ \A d \in earlier : calls[d].seq < calls[c].seq
           /\ earlier = {} => calls[c].seq = 0

\* A queue that numbered two requests was replaced, and the new queue has
\* numbered its first request.
C6_Witness ==
    \E c, d, e \in DOMAIN calls :
        /\ c < d /\ d < e
        /\ calls[c].session = calls[d].session
        /\ calls[d].session < calls[e].session
        /\ calls[e].seq = 0

\* C7: a request cancelled while it was in the queue is out of the queue,
\* is never handed to sendRequest or written to a worker, and no
\* cancellation file is written for it.
C7_QueuedCancelStaysLocal ==
    \A c \in DOMAIN calls :
        calls[c].cancelHit = "queue" =>
            /\ ~InQueue(c)
            /\ calls[c].sentAt = -1
            /\ ~Written(c)
            /\ \A g \in signals : g.by # c

\* A request was cancelled in the queue, and the queue it was in has since
\* been sent to the worker down to its last entry.
C7_Witness ==
    \E c \in DOMAIN calls :
        /\ calls[c].cancelHit = "queue"
        /\ calls[c].session = requestQueue.id
        /\ requestQueue.queue = <<>>
        /\ \E d \in DOMAIN calls : d # c /\ Written(d)
                                   /\ calls[d].session = calls[c].session

\* C8: when the token of an uncompleted result-bearing call fires, the
\* call's future is rejected as cancelled by the time the listener returns.
C8_CancelUnblocks ==
    \A c \in DOMAIN calls :
        calls[c].fired /\ calls[c].liveAtFire => calls[c].outcome = "cancelled"

C10_SixMediumExits ==
    /\ runs.medium.restarts = runs.medium.len
    /\ runs.medium.errors = 0
    /\ runs.medium.warnings <= 1
    /\ runs.medium.len = RunLength => runs.medium.warnings = 1

\* The sixth of six medium exits has been handled.
C10_Witness == runs.medium.len = RunLength

\* C11: after the fatal branch of serviceExited and with no restartTsServer
\* call, every result-bearing execute call made since is rejected and its
\* request is written to no worker process.
C11_FailFastWhileStopped ==
    lastExit.prompt = "error" /\ hostCalls.restart = 0 =>
        \A c \in DOMAIN calls :
            c > lastExit.calls /\ ResultBearing(c) =>
                /\ calls[c].outcome \in {"transport", "died", "cancelled", "rejected"}
                /\ ~Written(c)

\* C12: after the fatal branch of serviceExited, a step that is not a call
\* of restartTsServer (none has been made) forks no worker process.
C12_StoppedUntilRestart ==
    [][lastExit.prompt = "error" /\ hostCalls'.restart = 0
           => Len(procs') = Len(procs)]_vars

\* C20: an unplanned exit adds exactly 1 to the restart counter; a counter
\* that does not exceed 5 then is kept and the worker is restarted, whatever
\* the time since the start before; one that exceeds 5 is reset to 0; so
\* numberRestarts is in 0..5 between handlers.
C20_CounterStep ==
    /\ numberRestarts \in 0..MaxRestartCount
    /\ lastExit.restart =>
          /\ lastExit.after = IF lastExit.before + 1 > MaxRestartCount
                              THEN 0 ELSE lastExit.before + 1
          /\ lastExit.before + 1 <= MaxRestartCount => lastExit.started
          /\ numberRestarts = lastExit.after

\* The counter was at 5 when an unplanned exit came 60 s or more after the
\* start before it: it was reset and the worker restarted.
C20_Witness ==
    /\ lastExit.restart
    /\ lastExit.before = MaxRestartCount
    /\ lastExit.gap >= OneMinute
    /\ lastExit.after = 0
    /\ lastExit.started

\* C13: at most one worker process is being spawned or is alive and wired
\* to the client.
C13_OneActiveSession ==
    Cardinality({p \in DOMAIN procs : procs[p].state \in {"forking", "alive"}}) <= 1

\* C14: a response settles only a call whose request was written to the
\* process that sent the response.
C14_StaleResponseDiscarded ==
    [][\A c \in DOMAIN calls :
          calls[c].done = 0 /\ calls'[c].outcome \in {"resolved", "rejected"} =>
              \E p \in DOMAIN procs :
                  /\ procs'[p].answered > procs[p].answered
                  /\ procs[p].written[procs'[p].answered].call = c]_vars

\* C18: the exit of a process that restartTsServer killed leaves the restart
\* counter alone, prompts nothing and starts no worker; and the step that
\* kills a process starts exactly one.
C18_PlannedExitBypassesBreaker ==
    [][\A p \in DOMAIN procs :
          /\ procs[p].state = "exiting" /\ procs'[p].state = "dead" =>
                /\ numberRestarts' = numberRestarts
                /\ ~lastExit'.restart
                /\ lastExit'.prompt = "none"
                /\ Len(procs') = Len(procs)
          /\ procs[p].state = "alive" /\ procs'[p].state = "exiting" =>
                Len(procs') = Len(procs) + 1]_vars

\* C15, as stated: a call resolved by a response is resolved with the body
\* of the response.
C15_ResolvedWithBody ==
    \A c \in DOMAIN calls :
        calls[c].outcome = "resolved" => calls[c].value \in Bodies

\* C15, amended: a call resolved by a response is resolved with the
\* response message itself: request_seq is the call's sequence number,
\* success is true and body is the body received.
C15_ResolvedWithResponse ==
    \A c \in DOMAIN calls :
        calls[c].outcome = "resolved" =>
            \E b \in Bodies : calls[c].value = Response(calls[c].seq, TRUE, b)

\* Two calls were resolved by responses with different bodies.
C15_Witness ==
    \E c, d \in DOMAIN calls :
        /\ calls[c].outcome = "resolved" /\ calls[d].outcome = "resolved"
        /\ calls[c].value = Response(calls[c].seq, TRUE, [x |-> 1])
        /\ calls[d].value = Response(calls[d].seq, TRUE, [y |-> 2])

ExitOrError(p) ==
    \/ procs[p].state # "dead" /\ procs'[p].state = "dead"
    \/ ~procs[p].errored /\ procs'[p].errored

\* C17: when a process exits or raises 'error', every call in the registry
\* is rejected once with 'Service died.', the registry is left empty with
\* pendingResponses = 0, and serviceExited returns with servicePromise null.
C17_TeardownDrainsRegistry ==
    [][(\E p \in DOMAIN procs : ExitOrError(p)) =>
          /\ \A c \in DOMAIN calls :
                Registered(c) => calls'[c].done = 1 /\ calls'[c].outcome = "died"
          /\ callbacks'.callbacks = {}
          /\ callbacks'.pendingResponses = 0
          /\ \A restart \in BOOLEAN :
                serviceExited(State, restart).servicePromise = NullPromise]_vars

\* Both an 'exit' and an 'error' event have rejected a registered call.
C17_Witness ==
    /\ \E p \in DOMAIN procs : procs[p].errored
    /\ \E p \in DOMAIN procs : procs[p].state = "dead" /\ ~procs[p].errored
    /\ Cardinality({c \in DOMAIN calls : calls[c].outcome = "died"}) >= 2
    /\ callbacks.pendingResponses = 0

\* C19: an exit or an 'error' event of a process while no restart is in
\* progress runs the breaker: the restart counter goes up by 1 (or back to
\* 0 from 5) and the restart is the breaker's decision.
C19_ErrorRunsBreaker ==
    [][\A p \in DOMAIN procs :
          ~isRestarting /\ ExitOrError(p) =>
              /\ lastExit'.restart
              /\ lastExit'.before = numberRestarts
              /\ numberRestarts' = IF numberRestarts + 1 > MaxRestartCount
                                   THEN 0 ELSE numberRestarts + 1]_vars

\* C21: a response whose request_seq is registered removes that entry and
\* settles that call with the response, resolved if success is true and
\* rejected if false; it removes no other entry and settles no other call;
\* a response whose request_seq is not registered removes no entry and
\* settles no call.
C21_ResponseRouting ==
    [][\A p \in DOMAIN procs :
          procs'[p].answered > procs[p].answered =>
              LET seq == procs[p].written[procs'[p].answered].seq
                  hit == {e \in callbacks.callbacks : e.seq = seq}
              IN /\ \A e \in hit :
                       /\ e \notin callbacks'.callbacks
                       /\ calls'[e.call].done = 1
                       /\ calls'[e.call].outcome \in {"resolved", "rejected"}
                       /\ calls'[e.call].value =
                              Response(seq, calls'[e.call].outcome = "resolved", NoBody)
                 /\ \A e \in callbacks.callbacks \ hit :
                       /\ e \in callbacks'.callbacks
                       /\ calls'[e.call] = calls[e.call]
                 /\ \A c \in DOMAIN calls :
                       calls[c].done = 0 /\ c \notin {e.call : e \in hit} =>
                           calls'[c].outcome \notin {"resolved", "rejected"}]_vars

\* A response with success false has rejected a call, and a response has
\* arrived for a request that was cancelled after it was written.
C21_Witness ==
    /\ \E c \in DOMAIN calls : calls[c].outcome = "rejected"
    /\ \E p \in DOMAIN procs :
          \E i \in 1..procs[p].answered :
              calls[procs[p].written[i].call].outcome = "cancelled"

\* A message reaches dispatchMessage from process p in this step.
Message(p) ==
    \/ procs'[p].answered > procs[p].answered
    \/ procs'[p].received > procs[p].received

\* The entries a response removes from the registry, none for a message
\* that is not a response.
Freed(p) ==
    IF procs'[p].answered > procs[p].answered
    THEN {e \in callbacks.callbacks :
             e.seq = procs[p].written[procs'[p].answered].seq}
    ELSE {}

\* C22: dispatchMessage ends with the dispatch loop, whatever the type of
\* the message: when the message leaves pendingResponses at 0 and the queue
\* is not empty, the head of the queue has been handed to sendRequest when
\* the handler returns, and the queue is not left waiting with the gate open.
C22_DispatchAfterMessage ==
    [][\A p \in DOMAIN procs :
          /\ Message(p)
          /\ callbacks.pendingResponses - Cardinality(Freed(p)) = 0
          /\ Len(requestQueue.queue) > 0
          => /\ calls'[Head(requestQueue.queue).call].sentAt = 0
             /\ callbacks'.pendingResponses > 0 \/ requestQueue'.queue = <<>>]_vars

\* The finally block of dispatchMessage has sent a waiting request after a
\* message of an unknown type.
C22_Witness == lastMessage.type = "unknown" /\ lastMessage.sent > 0

\* C23: a message whose type is neither 'response' nor 'event' is logged
\* and discarded: dispatchMessage raises no error to the reader that
\* called it.
C23_UnknownTypeDiscarded == ~lastMessage.raised

\* C24: the result-bearing requests of one Session (one RequestQueue) that
\* a worker process was sent were written in the order of their execute
\* calls.
C24_WrittenInSubmissionOrder ==
    \A p \in DOMAIN procs :
        \A i, j \in 1..Len(procs[p].written) :
            LET c == procs[p].written[i].call
                d == procs[p].written[j].call
            IN /\ i < j
               /\ ResultBearing(c) /\ ResultBearing(d)
               /\ calls[c].session = calls[d].session
               => c < d

\* A worker was sent three result-bearing requests of one Session, the
\* last two of which had waited in the queue together.
C24_Witness ==
    \E p \in DOMAIN procs :
        \E i, j, k \in 1..Len(procs[p].written) :
            LET c == procs[p].written[i].call
                d == procs[p].written[j].call
                e == procs[p].written[k].call
            IN /\ i < j /\ j < k
               /\ ResultBearing(c) /\ ResultBearing(d) /\ ResultBearing(e)
               /\ calls[c].session = calls[d].session
               /\ calls[d].session = calls[e].session

\* C25: a result-bearing request is written only after sendRequest has
\* added its callbacks to the registry: when the handler that gave it to
\* sendRequest returns it is registered, unless it has been completed or
\* the registry has been replaced by then, and no request is written
\* that sendRequest has not been given.
C25_RegisteredBeforeWritten ==
    [][\A c \in DOMAIN calls' :
          calls'[c].kind # "fire" =>
              /\ (c \notin DOMAIN calls \/ calls[c].sentAt = -1) /\ calls'[c].sentAt # -1
                     => \/ \E e \in callbacks'.callbacks : e.call = c
                        \/ calls'[c].done > 0
                        \/ callbacks'.id # callbacks.id
              /\ (\E p \in DOMAIN procs' :
                     \E i \in 1..Len(procs'[p].written) : procs'[p].written[i].call = c)
                     => calls'[c].sentAt # -1]_vars

\* A request with a token was registered while the worker was being
\* forked and has since been written to it, still registered.
C25_Witness ==
    \E c \in DOMAIN calls :
        /\ calls[c].kind = "token" /\ Written(c) /\ Registered(c)
        /\ \E d \in DOMAIN calls : d > c /\ calls[d].session = calls[c].session
                                    /\ calls[d].kind = "result"

\* C26: between handlers the queue is never non-empty while
\* pendingResponses is 0.
C26_NoStallWithGateOpen ==
    ~(Len(requestQueue.queue) > 0 /\ callbacks.pendingResponses = 0)

\* C27: the token listener and the write-failure handler of a request
\* reject no call but their own: a call is rejected as cancelled only in
\* the step in which its own token fires, and with the transport error
\* only when its own sendRequest found service() rejecting.
C27_CompletionHitsOwnRequest ==
    [][\A c \in DOMAIN calls :
          calls[c].done = 0 =>
              /\ calls'[c].outcome = "cancelled" => ~calls[c].fired /\ calls'[c].fired
              /\ calls'[c].outcome = "transport" => calls'[c].noService]_vars

\* C28: no worker process is sent two requests with the same sequence
\* number.
C28_OneSequencerPerWorker ==
    \A p \in DOMAIN procs :
        \A i, j \in 1..Len(procs[p].written) :
            i # j => procs[p].written[i].seq # procs[p].written[j].seq

====
